---------------------------- MODULE Spec2Model ----------------------------
(***************************************************************************)
(* Model of the container lifecycle tool of IsaacLabExtensions:            *)
(*   src/docker/container.py                 (the dispatcher, main)        *)
(*   src/docker/utils/apptainer_interface.py (the image backend)           *)
(* The engine backend (ContainerInterface), the StateFile and the x11      *)
(* helpers are imported by these files but their code is not part of the   *)
(* sources; they are modelled from the design document where needed.       *)
(*                                                                         *)
(* Text is modelled as a sequence of code units.  A code unit is either a  *)
(* single character ("=", "#", " ", "y", ...) or an atom standing for a    *)
(* fixed run of characters that is never split ("HEADLESS",                *)
(* "APPTAINERENV_", ...).  Paths are sequences of path components.         *)
(***************************************************************************)
EXTENDS Integers, Sequences, FiniteSets, TLC

VARIABLES
    installed,   \* binaries shutil.which() finds on the host
    osenv,       \* os.environ of the invoking process (name -> value)
    fs,          \* the host filesystem: the set of paths that exist
    envfiles,    \* contents of the variable files: path -> sequence of lines
    cfg,         \* contents of the state file: <<namespace, key>> -> value
    container,   \* the engine backend's named container
    pc,          \* position of main() in the current invocation
    cmd,         \* args.command of the current invocation
    envs,        \* args.env_files of the current invocation
    runtime,     \* detect_container_runtime()'s result
    profile,     \* ci.profile
    dot_vars,    \* ci.dot_vars, the VariableSet
    environ,     \* ci.environ
    namespace,   \* ci.statefile.namespace
    x11_args,    \* what _get_x11_args returned to enter
    binds,       \* what _get_bind_mounts returned to enter
    trace,       \* what the current invocation has done so far, in order
    last         \* inputs and VariableSet of the previous construction

vars == <<installed, osenv, fs, envfiles, cfg, container, pc, cmd, envs,
          runtime, profile, dot_vars, environ, namespace, x11_args, binds,
          trace, last>>

host == <<installed, osenv, envfiles>>

(***************************************************************************)
(* Bounds of the model.                                                    *)
(***************************************************************************)
MaxEnvs == 2        \* longest --env-files list an invocation is given

----------------------------------------------------------------------------
(***************************************************************************)
(* Generic helpers.                                                        *)
(***************************************************************************)
None == <<"None">>                       \* Python's None / an absent value

Range(s) == { s[i] : i \in DOMAIN s }

SeqsUpTo(S, n) == UNION { [1..m -> S] : m \in 0..n }

IsPrefix(p, q) == Len(p) <= Len(q) /\ SubSeq(q, 1, Len(p)) = p

Prefixes(p) == { SubSeq(p, 1, n) : n \in 1..Len(p) }

\* f with the key k (re)bound to v: Python's d[k] = v
Put(f, k, v) == [x \in (DOMAIN f) \cup {k} |-> IF x = k THEN v ELSE f[x]]

EmptyMap == [x \in {} |-> None]

----------------------------------------------------------------------------
(***************************************************************************)
(* Paths (ApptainerInterface.__init__) and filesystem primitives.          *)
(***************************************************************************)
repo_root     == <<"repo">>
isaaclab_root == repo_root \o <<"isaaclab">>
context_dir   == isaaclab_root \o <<"docker">>
docker_dir    == context_dir
vol_root      == repo_root \o <<"docker_volumes">>
statefile_path == repo_root \o <<"docker_volumes", "config", ".container.cfg">>

container_name(p) == "isaac-lab-" \o p
image_name(p)     == "isaac-lab-" \o p \o ".sif"
image_path(p)     == repo_root \o <<"hyak_transfer", image_name(p)>>

X11Socket == <<"tmp", ".X11-unix">>      \* /tmp/.X11-unix on the host

Exists(f, p) == p \in f                          \* Path.exists

Mkdir(f, p) == f \cup Prefixes(p)                \* Path.mkdir(parents=True, exist_ok=True)

Touch(f, p) == f \cup {p}                        \* Path.touch, parent present

Unlink(f, p) == f \ {p}                          \* Path.unlink

Rmtree(f, p) == { q \in f : ~IsPrefix(p, q) }    \* shutil.rmtree

\* Path.resolve on a path below the already resolved context directory
Resolve(p) == <<"/">> \o p


----------------------------------------------------------------------------
(***************************************************************************)
(* StateFile (utils/state_file.py is not among the sources; modelled from  *)
(* the design document, section 4.1): a sectioned key=value file.  Reads   *)
(* of a missing file return None; a write creates the file and its parent  *)
(* directories and rewrites the whole file.                                *)
(***************************************************************************)
\* a read that finds the key under whichever namespace holds it
StateGet_any_namespace(f, c, ns, key) ==
    IF ~Exists(f, statefile_path) THEN None
    ELSE IF \E e \in DOMAIN c : e[2] = key
    THEN c[CHOOSE e \in DOMAIN c : e[2] = key] ELSE None

StateGet(f, c, ns, key) ==
    IF ~Exists(f, statefile_path) THEN None
    ELSE IF <<ns, key>> \in DOMAIN c THEN c[<<ns, key>>] ELSE None

StateSetCfg(f, c, ns, key, v) ==
    Put(IF Exists(f, statefile_path) THEN c ELSE EmptyMap, <<ns, key>>, v)

StateSetFs(f) == Touch(Mkdir(f, SubSeq(statefile_path, 1, Len(statefile_path) - 1)),
                       statefile_path)

\* the file's contents once the filesystem has become f
CfgOn(f, c) == IF Exists(f, statefile_path) THEN c ELSE EmptyMap

----------------------------------------------------------------------------
(***************************************************************************)
(* EnvironmentLayering: ApptainerInterface._load_env_files.                *)
(***************************************************************************)
Whitespace == {" ", "\t", "\n"}

RECURSIVE LStrip(_)
LStrip(s) == IF s # <<>> /\ Head(s) \in Whitespace THEN LStrip(Tail(s)) ELSE s

RECURSIVE RStrip(_)
RStrip(s) == IF s # <<>> /\ s[Len(s)] \in Whitespace
             THEN RStrip(SubSeq(s, 1, Len(s) - 1)) ELSE s

Strip(s) == RStrip(LStrip(s))                    \* str.strip

\* index of the first "=" of a line that holds one
FirstEq(l) == CHOOSE i \in 1..Len(l) : l[i] = "=" /\ \A j \in 1..(i - 1) : l[j] # "="

\* a line split at its last "="
ParseLine_last_eq(line) ==
    LET l == Strip(line)
        i == CHOOSE i \in 0..Len(l) :
               (i > 0 => l[i] = "=") /\ \A j \in (i + 1)..Len(l) : l[j] # "="
    IN  IF l = <<>> \/ l[1] = "#" \/ "=" \notin Range(l) THEN None
        ELSE <<SubSeq(l, 1, i - 1), SubSeq(l, i + 1, Len(l))>>

\* lines 96-99: None for a skipped line, else <<key, value>>
ParseLine(line) ==
    LET l == Strip(line) IN
    IF l = <<>> \/ l[1] = "#" \/ "=" \notin Range(l) THEN None
    ELSE <<SubSeq(l, 1, FirstEq(l) - 1), SubSeq(l, FirstEq(l) + 1, Len(l))>>

Prefixed(k) == <<"APPTAINERENV_">> \o k          \* f"APPTAINERENV_{k}"

\* lines 86-88 and 100-102: the three assignments made for one variable
SetVar(st, k, v) ==
    [dot |-> Put(st.dot, k, v),
     env |-> Put(Put(st.env, k, v), Prefixed(k), v)]

\* lines 73-84, in the dict's order
default_vars ==
    << <<<<"HEADLESS">>, <<"1">>>>,
       <<<<"ENABLE_CAMERAS">>, <<"1">>>>,
       <<<<"LIVESTREAM">>, <<"0">>>>,
       <<<<"ISAACSIM_ASSET_ROOT">>, <<"/isaacsim_assets/Assets/Isaac/4.5">>>>,
       <<<<"HISTFILE">>, <<"/root/.bash_history">>>>,
       <<<<"HISTSIZE">>, <<"1000">>>>,
       <<<<"HISTFILESIZE">>, <<"2000">>>>,
       <<<<"TMPDIR">>, <<"/tmp">>>>,
       <<<<"TEMP">>, <<"/tmp">>>>,
       <<<<"TMP">>, <<"/tmp">>>> >>

RECURSIVE ApplyPairs(_, _)
ApplyPairs(st, pairs) ==
    IF pairs = <<>> THEN st
    ELSE ApplyPairs(SetVar(st, Head(pairs)[1], Head(pairs)[2]), Tail(pairs))

ApplyLine(st, line) ==
    IF ParseLine(line) = None THEN st
    ELSE SetVar(st, ParseLine(line)[1], ParseLine(line)[2])

RECURSIVE ApplyLines(_, _)
ApplyLines(st, lines) ==
    IF lines = <<>> THEN st ELSE ApplyLines(ApplyLine(st, Head(lines)), Tail(lines))

\* the file list with the extra files read before the profile's file
EnvFileList_extras_first(p, e) ==
    <<".env.base">>
    \o (IF e # None /\ e # <<>> THEN e ELSE <<>>)
    \o (IF p # "base" THEN <<".env." \o p>> ELSE <<>>)

\* lines 66-70
EnvFileList(p, e) ==
    <<".env.base">>
    \o (IF p # "base" THEN <<".env." \o p>> ELSE <<>>)
    \o (IF e # None /\ e # <<>> THEN e ELSE <<>>)

\* lines 90-102: files that do not exist are passed over
RECURSIVE ApplyFiles(_, _, _)
ApplyFiles(st, files, names) ==
    IF names = <<>> THEN st
    ELSE ApplyFiles(IF Head(names) \in DOMAIN files
                    THEN ApplyLines(st, files[Head(names)]) ELSE st,
                    files, Tail(names))

\* _load_env_files for the (already canonical) profile p: the new
\* [dot |-> self.dot_vars, env |-> self.environ]
LoadEnvFiles(env0, files, p, e) ==
    ApplyFiles(ApplyPairs([dot |-> EmptyMap, env |-> env0], default_vars),
               files, EnvFileList(p, e))

\* the profile taken as given
CanonProfile_keeps_alias(p) == p

\* lines 47-50: the legacy alias is silently corrected
CanonProfile(p) == IF p = "isaaclab" THEN "base" ELSE p


----------------------------------------------------------------------------
(***************************************************************************)
(* The image backend's helpers.  An operation's result is a record: fs the *)
(* filesystem it leaves, ev the events it caused in order, ok whether it   *)
(* returned (FALSE: it raised).  Events are tuples whose first field is    *)
(* the kind: print, mkdir, touch, unlink, rmtree, input, proc, raise.      *)
(***************************************************************************)
Info(tag) == <<"print", "INFO", tag>>

\* lines 154-157 and 269-272: create each directory of dirs that is missing
RECURSIVE EnsureDirs(_, _)
EnsureDirs(r, dirs) ==
    IF dirs = <<>> THEN r
    ELSE EnsureDirs(
           IF Exists(r.fs, Head(dirs)) THEN r
           ELSE [fs |-> Mkdir(r.fs, Head(dirs)),
                 ev |-> r.ev \o <<Info("Creating directory"), <<"mkdir", Head(dirs)>>>>],
           Tail(dirs))

assets_dir == vol_root \o <<"assets", "Assets", "Isaac", "4.5">>

\* check_isaac_assets: only prints
check_isaac_assets(f) ==
    IF Exists(f, assets_dir) /\ Exists(f, assets_dir \o <<"NVIDIA">>)
       /\ Exists(f, assets_dir \o <<"Isaac">>)
    THEN <<Info("Isaac Sim assets found")>>
    ELSE <<Info("Isaac Sim assets not found"),
           Info("Download the three Isaac Sim asset packs from"),
           Info("Extract to"),
           Info("Cloud assets will be used by default")>>

\* lines 133-152
required_dirs ==
    << vol_root \o <<"kit", "cache">>,
       vol_root \o <<"kit", "logs", "Kit", "Isaac-Sim">>,
       vol_root \o <<"kit", "data">>,
       vol_root \o <<"assets", "Assets", "Isaac", "4.5">>,
       vol_root \o <<"cache", "ov">>,
       vol_root \o <<"cache", "pip">>,
       vol_root \o <<"cache", "nvidia", "GLCache">>,
       vol_root \o <<"cache", "compute">>,
       vol_root \o <<"logs", "omniverse">>,
       vol_root \o <<"data", "omniverse">>,
       vol_root \o <<"docs">>,
       vol_root \o <<"shell_history">>,
       vol_root \o <<"tmp">> >>

bash_history_file == vol_root \o <<"shell_history", ".bash_history">>

\* lines 166-217: (host path, container path), in order
volume_map ==
    << <<vol_root \o <<"kit", "cache">>, "/isaac-sim/kit/cache">>,
       <<vol_root \o <<"kit", "logs", "Kit", "Isaac-Sim">>, "/isaac-sim/kit/logs/Kit/Isaac-Sim">>,
       <<vol_root \o <<"kit", "data">>, "/isaac-sim/kit/data">>,
       <<vol_root \o <<"assets", "Assets", "Isaac", "4.5">>, "/isaacsim_assets/Assets/Isaac/4.5">>,
       <<vol_root \o <<"cache", "ov">>, "/root/.cache/ov">>,
       <<vol_root \o <<"cache", "pip">>, "/root/.cache/pip">>,
       <<vol_root \o <<"cache", "nvidia", "GLCache">>, "/root/.cache/nvidia/GLCache">>,
       <<vol_root \o <<"cache", "compute">>, "/root/.nv/ComputeCache">>,
       <<vol_root \o <<"logs", "omniverse">>, "/root/.nvidia-omniverse/logs">>,
       <<vol_root \o <<"data", "omniverse">>, "/root/.local/share/ov/data">>,
       <<vol_root \o <<"docs">>, "/root/Documents">>,
       <<isaaclab_root \o <<"source">>, "/workspace/isaaclab/source">>,
       <<isaaclab_root \o <<"scripts">>, "/workspace/isaaclab/scripts">>,
       <<isaaclab_root \o <<"docs">>, "/workspace/isaaclab/docs">>,
       <<isaaclab_root \o <<"tools">>, "/workspace/isaaclab/tools">>,
       <<repo_root \o <<"libraries">>, "/workspace/isaaclab/libraries">>,
       <<isaaclab_root \o <<"logs">>, "/workspace/isaaclab/logs">>,
       <<isaaclab_root \o <<"outputs">>, "/workspace/isaaclab/outputs">>,
       <<isaaclab_root \o <<"data_storage">>, "/workspace/isaaclab/data_storage">>,
       <<vol_root \o <<"shell_history", ".bash_history">>, "/root/.bash_history">>,
       <<vol_root \o <<"tmp">>, "/tmp">> >>

\* the history file touched whether or not it is there
EnsureHistory_always_touches(r) ==
    [fs |-> Touch(r.fs, bash_history_file),
     ev |-> r.ev \o <<Info("Creating bash_history file"), <<"touch", bash_history_file>>>>]

\* lines 159-163
EnsureHistory(r) ==
    IF Exists(r.fs, bash_history_file) THEN r
    ELSE [fs |-> Touch(r.fs, bash_history_file),
          ev |-> r.ev \o <<Info("Creating bash_history file"), <<"touch", bash_history_file>>>>]

\* lines 219-225: the formatted table, "host:container" kept as a pair
FormatBinds(m) == [i \in DOMAIN m |-> <<Resolve(m[i][1]), m[i][2]>>]

\* _get_bind_mounts: the BindMountPlanner
get_bind_mounts(f) ==
    LET r == EnsureHistory(EnsureDirs([fs |-> f, ev |-> <<>>], required_dirs))
    IN  [fs |-> r.fs, ev |-> r.ev, binds |-> FormatBinds(volume_map)]

get_gpu_args == <<"--nv">>

\* _get_x11_args that does not look for the socket directory
get_x11_args_no_socket(f, c, env, ns) ==
    IF ~Exists(f, statefile_path) THEN [args |-> <<>>, ns |-> ns]
    ELSE [args |-> IF StateGet(f, c, "X11", <<"X11_FORWARDING_ENABLED">>) = <<"1">>
                      /\ <<"DISPLAY">> \in DOMAIN env
                   THEN << <<"--env">>, <<"DISPLAY=">> \o env[<<"DISPLAY">>],
                           <<"--bind">>, <<"/tmp/.X11-unix:/tmp/.X11-unix:rw">> >>
                   ELSE <<>>,
          ns |-> ns]

\* _get_x11_args that leaves the handle on the namespace it read under
get_x11_args_stays_on_x11(f, c, env, ns) ==
    IF ~Exists(f, statefile_path) THEN [args |-> <<>>, ns |-> ns]
    ELSE [args |-> IF StateGet(f, c, "X11", <<"X11_FORWARDING_ENABLED">>) = <<"1">>
                      /\ <<"DISPLAY">> \in DOMAIN env
                      /\ Exists(f, X11Socket)
                   THEN << <<"--env">>, <<"DISPLAY=">> \o env[<<"DISPLAY">>],
                           <<"--bind">>, <<"/tmp/.X11-unix:/tmp/.X11-unix:rw">> >>
                   ELSE <<>>,
          ns |-> "X11"]

\* _get_x11_args: [args, ns]: the arguments and the namespace the handle is left on
get_x11_args(f, c, env, ns) ==
    IF ~Exists(f, statefile_path) THEN [args |-> <<>>, ns |-> ns]
    ELSE LET original_namespace == ns
             is_x11_forwarding_enabled == StateGet(f, c, "X11", <<"X11_FORWARDING_ENABLED">>)
         IN  [args |-> IF is_x11_forwarding_enabled = <<"1">>
                          /\ <<"DISPLAY">> \in DOMAIN env
                          /\ Exists(f, X11Socket)
                       THEN << <<"--env">>, <<"DISPLAY=">> \o env[<<"DISPLAY">>],
                               <<"--bind">>, <<"/tmp/.X11-unix:/tmp/.X11-unix:rw">> >>
                       ELSE <<>>,
              ns |-> original_namespace]


----------------------------------------------------------------------------
(***************************************************************************)
(* The image backend's lifecycle operations (ApptainerInterface).          *)
(***************************************************************************)
host_dirs ==
    << isaaclab_root \o <<"logs">>,
       isaaclab_root \o <<"outputs">>,
       isaaclab_root \o <<"data_storage">> >>

create_sif_script == docker_dir \o <<"cluster", "create_sif.sh">>

\* What running the build script can do: the script is external and only
\* its exit status is looked at.
BuildOutcomes == {"built", "exit0_no_image", "failed"}

\* start that runs the build script with check=False
start_unchecked(f, p, out) ==
    LET d == EnsureDirs([fs |-> f, ev |-> <<>>], host_dirs) IN
    IF Exists(d.fs, image_path(p))
    THEN [fs |-> d.fs, ev |-> d.ev \o check_isaac_assets(d.fs), ok |-> TRUE]
    ELSE IF ~Exists(d.fs, create_sif_script)
    THEN [fs |-> d.fs,
          ev |-> d.ev \o check_isaac_assets(d.fs)
                 \o << <<"raise", "RuntimeError", "create_sif.sh script not found">> >>,
          ok |-> FALSE]
    ELSE [fs |-> IF out = "built" THEN Mkdir(d.fs, image_path(p)) ELSE d.fs,
          ev |-> d.ev \o check_isaac_assets(d.fs)
                 \o << <<"proc", "create_sif.sh", IF out = "failed" THEN 1 ELSE 0>> >>,
          ok |-> TRUE]

\* start that rebuilds the image whether or not it is there
start_always_builds(f, p, out) ==
    LET d == EnsureDirs([fs |-> f, ev |-> <<>>], host_dirs) IN
    IF out = "failed"
    THEN [fs |-> d.fs,
          ev |-> d.ev \o check_isaac_assets(d.fs)
                 \o << <<"proc", "create_sif.sh", 1>>,
                        <<"raise", "RuntimeError", "Failed to create SIF image">> >>,
          ok |-> FALSE]
    ELSE [fs |-> IF out = "built" THEN Mkdir(d.fs, image_path(p)) ELSE d.fs,
          ev |-> d.ev \o check_isaac_assets(d.fs) \o << <<"proc", "create_sif.sh", 0>> >>,
          ok |-> TRUE]

\* start, lines 259-307
start(f, p, out) ==
    LET d  == EnsureDirs([fs |-> f, ev |-> <<>>], host_dirs)
        ev == d.ev \o check_isaac_assets(d.fs)
    IN  IF Exists(d.fs, image_path(p))
        THEN [fs |-> d.fs, ev |-> ev \o <<Info("Image already exists")>>, ok |-> TRUE]
        ELSE LET ev1 == ev \o <<Info("Image does not exist. Creating it")>> IN
             IF ~Exists(d.fs, create_sif_script)
             THEN [fs |-> d.fs,
                   ev |-> ev1 \o << <<"raise", "RuntimeError", "create_sif.sh script not found">> >>,
                   ok |-> FALSE]
             ELSE IF out = "failed"
             THEN [fs |-> d.fs,
                   ev |-> ev1 \o << <<"proc", "create_sif.sh", 1>>,
                                    <<"print", "ERROR", "Failed to create Apptainer image">>,
                                    <<"raise", "RuntimeError", "Failed to create SIF image">> >>,
                   ok |-> FALSE]
             ELSE [fs |-> IF out = "built" THEN Mkdir(d.fs, image_path(p)) ELSE d.fs,
                   ev |-> ev1 \o << <<"proc", "create_sif.sh", 0>>,
                                    Info("Successfully created Apptainer image") >>,
                   ok |-> TRUE]

\* enter that plans the mounts before it looks for the image
enter_plans_first(f, c, env, inst, p, ns, rc) ==
    LET b == get_bind_mounts(f) IN
    IF ~Exists(f, image_path(p))
    THEN [fs |-> b.fs, ok |-> FALSE, args |-> <<>>, binds |-> <<>>, ns |-> ns,
          ev |-> b.ev \o << <<"raise", "RuntimeError", "Image does not exist. Run 'start' first.">> >>]
    ELSE [fs |-> b.fs, ok |-> "apptainer" \in inst,
          args |-> get_x11_args(f, c, env, ns).args, binds |-> b.binds, ns |-> ns,
          ev |-> b.ev \o (IF "apptainer" \in inst
                          THEN << <<"proc", "apptainer exec", rc>> >>
                          ELSE << <<"raise", "FileNotFoundError", "apptainer">> >>)]

\* enter, lines 309-350; inst: the binaries on the host, rc: the exit status
\* of the runtime exec.  The result also carries args, binds and the
\* namespace the statefile handle is left on.
enter(f, c, env, inst, p, ns, rc) ==
    IF ~Exists(f, image_path(p))
    THEN [fs |-> f, ok |-> FALSE, args |-> <<>>, binds |-> <<>>, ns |-> ns,
          ev |-> << <<"raise", "RuntimeError", "Image does not exist. Run 'start' first.">> >>]
    ELSE LET x == get_x11_args(f, c, env, ns)
             b == get_bind_mounts(f)
             ev == <<Info("Entering container")>>
                   \o (IF x.args # <<>> THEN <<Info("X11 forwarding is enabled.")>>
                       ELSE <<Info("X11 forwarding is disabled. No action taken.")>>)
                   \o b.ev
         IN  IF "apptainer" \in inst
             THEN [fs |-> b.fs, ok |-> TRUE, args |-> x.args, binds |-> b.binds, ns |-> x.ns,
                   ev |-> ev \o << <<"proc", "apptainer exec", rc>> >>]
             ELSE [fs |-> b.fs, ok |-> FALSE, args |-> x.args, binds |-> b.binds, ns |-> x.ns,
                   ev |-> ev \o << <<"raise", "FileNotFoundError", "apptainer">> >>]

\* stop that says nothing
stop_silent == <<>>

\* stop, hard_stop, copy, config: lines 352-358 and 420-426
stop == <<Info("Apptainer containers are ephemeral - nothing to stop.")>>

hard_stop == <<Info("Apptainer containers are ephemeral - nothing to hard stop.")>>

copy == <<Info("Copy operation not needed with Apptainer bind mounts.")>>

config == <<Info("Config operation not supported with Apptainer.")>>

\* the volume directories with the asset packs among them
cache_dirs_with_assets ==
    << vol_root \o <<"kit">>,
       vol_root \o <<"cache">>,
       vol_root \o <<"config">>,
       vol_root \o <<"logs">>,
       vol_root \o <<"data">>,
       vol_root \o <<"docs">>,
       vol_root \o <<"shell_history">>,
       vol_root \o <<"tmp">>,
       vol_root \o <<"assets">> >>

\* lines 372-386
cache_dirs_to_remove ==
    << vol_root \o <<"kit">>,
       vol_root \o <<"cache">>,
       vol_root \o <<"config">>,
       vol_root \o <<"logs">>,
       vol_root \o <<"data">>,
       vol_root \o <<"docs">>,
       vol_root \o <<"shell_history">>,
       vol_root \o <<"tmp">> >>

\* lines 395-399
workspace_dirs_to_remove ==
    << isaaclab_root \o <<"logs">>,
       isaaclab_root \o <<"outputs">>,
       isaaclab_root \o <<"data_storage">> >>

LowerChar(ch) ==
    CASE ch = "Y" -> "y" [] ch = "E" -> "e" [] ch = "S" -> "s" [] ch = "N" -> "n"
      [] ch = "O" -> "o" [] OTHER -> ch

Lower(t) == [i \in DOMAIN t |-> LowerChar(t[i])]        \* str.lower

\* a confirmation that takes any answer beginning with y
Confirmed_any_y(response) == response # <<>> /\ Lower(response)[1] = "y"

\* line 403
Confirmed(response) == Lower(response) \in { <<"y">>, <<"y", "e", "s">> }

\* lines 387-392
RECURSIVE RemoveCacheDirs(_, _)
RemoveCacheDirs(r, dirs) ==
    IF dirs = <<>> THEN r
    ELSE RemoveCacheDirs(
           IF Exists(r.fs, Head(dirs))
           THEN [fs |-> Rmtree(r.fs, Head(dirs)),
                 ev |-> r.ev \o <<Info("Removing cache directory"), <<"rmtree", Head(dirs)>>>>]
           ELSE [fs |-> r.fs, ev |-> r.ev \o <<Info("Cache directory does not exist")>>],
           Tail(dirs))

\* lines 400-409; ans[i] is what the operator types at the prompt for the
\* i-th directory, should that prompt be made
RECURSIVE RemoveWorkspaceDirs(_, _, _)
RemoveWorkspaceDirs(r, ans, i) ==
    IF i > Len(workspace_dirs_to_remove) THEN r
    ELSE LET d == workspace_dirs_to_remove[i] IN
         RemoveWorkspaceDirs(
           IF ~Exists(r.fs, d)
           THEN [fs |-> r.fs, ev |-> r.ev \o <<Info("Workspace directory does not exist")>>]
           ELSE IF Confirmed(ans[i])
           THEN [fs |-> Rmtree(r.fs, d),
                 ev |-> r.ev \o << <<"input", d, ans[i]>>,
                                   Info("Removing workspace directory"), <<"rmtree", d>> >>]
           ELSE [fs |-> r.fs,
                 ev |-> r.ev \o << <<"input", d, ans[i]>>, Info("Keeping workspace directory") >>],
           ans, i + 1)

\* cleanup, lines 360-418
cleanup(f, inst, p, ans) ==
    LET r1 == IF Exists(f, image_path(p))
              THEN [fs |-> Unlink(f, image_path(p)),
                    ev |-> <<Info("Removing Apptainer image"), <<"unlink", image_path(p)>>>>]
              ELSE [fs |-> f, ev |-> <<Info("Image does not exist.")>>]
        r2 == RemoveCacheDirs(r1, cache_dirs_to_remove)
        r3 == RemoveWorkspaceDirs(r2, ans, 1)
    IN  [fs |-> r3.fs, ok |-> TRUE,
         ev |-> r3.ev \o <<Info("Cleaning Apptainer cache")>>
                \o (IF "apptainer" \in inst
                    THEN << <<"proc", "apptainer cache clean", 0>> >>
                    ELSE <<Info("Could not clean Apptainer cache")>>)]


----------------------------------------------------------------------------
(***************************************************************************)
(* ForwardingController (utils/x11_utils.py is not among the sources;      *)
(* modelled from the design document, section 4.4).                        *)
(***************************************************************************)
root_namespace == "root"

FlagKey == <<"X11_FORWARDING_ENABLED">>

\* check(): an unset flag is decided from the display and persisted; the
\* result is None when forwarding is off, else the variable overlay
x11_check(f, c, env) ==
    LET flag == StateGet(f, c, "X11", FlagKey)
        decided == IF <<"DISPLAY">> \in DOMAIN env THEN <<"1">> ELSE <<"0">>
    IN  IF flag # None
        THEN [fs |-> f, cfg |-> c, on |-> flag = <<"1">>]
        ELSE [fs |-> StateSetFs(f), cfg |-> StateSetCfg(f, c, "X11", FlagKey, decided),
              on |-> decided = <<"1">>]

x11_envar == [k \in {FlagKey} |-> <<"1">>]

\* cleanup(): acts on the state file only and never creates it; whether
\* the flag's entry survives is not specified
x11_cleanup_results(f, c) ==
    {c} \cup (IF Exists(f, statefile_path)
              THEN { [k \in (DOMAIN c) \ {<<"X11", FlagKey>>} |-> c[k]] } ELSE {})

\* dict.update
Update(d, o) == [k \in (DOMAIN d) \cup (DOMAIN o) |-> IF k \in DOMAIN o THEN o[k] ELSE d[k]]

----------------------------------------------------------------------------
(***************************************************************************)
(* The dispatcher: container.py, detect_container_runtime and main.        *)
(***************************************************************************)
Binaries == {"docker", "apptainer", "singularity"}

Commands == {"start", "enter", "config", "copy", "stop", "hard_stop",
             "cleanup", "deep_cleanup"}

Profiles == {"base", "ros", "isaaclab"}

\* main's else branch is reached with any other command
AnyCommand == Commands \cup {"restart"}

\* detection that asks for the image runtimes first
detect_image_first(inst) ==
    IF "apptainer" \in inst \/ "singularity" \in inst THEN "apptainer"
    ELSE IF "docker" \in inst THEN "docker"
    ELSE ""

\* lines 14-21; "" stands for the RuntimeError
detect_container_runtime(inst) ==
    IF "docker" \in inst THEN "docker"
    ELSE IF "apptainer" \in inst \/ "singularity" \in inst THEN "apptainer"
    ELSE ""

session == <<cmd, envs, runtime, profile, dot_vars, environ, namespace, x11_args, binds>>

NoSession ==
    /\ cmd = "" /\ envs = None /\ runtime = "" /\ profile = ""
    /\ dot_vars = EmptyMap /\ environ = EmptyMap /\ namespace = root_namespace
    /\ x11_args = <<>> /\ binds = <<>>

\* the arguments main is given (parse_cli_args, lines 98-101)
Args(c, p, e) == <<"args", c, p, e>>

\* main, lines 107 and 21: no runtime on the host
InvokeNoRuntime(c, p, e) ==
    /\ pc = "idle"
    /\ detect_container_runtime(installed) = ""
    /\ pc' = "fatal"
    /\ cmd' = c /\ envs' = e
    /\ trace' = << Args(c, p, e),
                   <<"raise", "RuntimeError", "Neither Docker nor Apptainer/Singularity found!">> >>
    /\ UNCHANGED <<host, fs, cfg, container, runtime, profile, dot_vars, environ,
                   namespace, x11_args, binds, last>>

\* main, lines 109-122 and 131: the engine backend is constructed.  What
\* ContainerInterface builds is not among the sources; it keeps the process
\* environment and canonicalizes the profile (design document, section 3).
InvokeEngine(c, p, e) ==
    /\ pc = "idle"
    /\ detect_container_runtime(installed) = "docker"
    /\ pc' = "dispatch"
    /\ cmd' = c /\ envs' = e /\ runtime' = "docker"
    /\ profile' = CanonProfile(p)
    /\ environ' = osenv
    /\ trace' = << Args(c, p, e), <<"construct", "docker">>, Info("Using docker") >>
    /\ UNCHANGED <<host, fs, cfg, container, dot_vars, namespace, x11_args, binds, last>>

\* ApptainerInterface.__init__, lines 46-60
ApptainerInit(env0, files, p, e) ==
    LET q == CanonProfile(p)
        v == LoadEnvFiles(env0, files, q, e)
    IN  [profile |-> q, dot_vars |-> v.dot, environ |-> v.env]

\* main, lines 124-131: the image backend is constructed
InvokeImage(c, p, e) ==
    /\ pc = "idle"
    /\ detect_container_runtime(installed) = "apptainer"
    /\ pc' = "dispatch"
    /\ cmd' = c /\ envs' = e /\ runtime' = "apptainer"
    /\ LET ci == ApptainerInit(osenv, envfiles, p, e) IN
         /\ profile' = ci.profile
         /\ dot_vars' = ci.dot_vars
         /\ environ' = ci.environ
    /\ trace' = << Args(c, p, e), <<"construct", "apptainer">>,
                   <<"read_env", EnvFileList(CanonProfile(p), e)>>, Info("Using apptainer") >>
    /\ UNCHANGED <<host, fs, cfg, container, namespace, x11_args, binds, last>>

\* main, lines 133-144: start consults forwarding check() first
X11Check ==
    /\ pc = "dispatch" /\ cmd = "start"
    /\ LET r == x11_check(fs, cfg, osenv) IN
         /\ fs' = r.fs
         /\ cfg' = r.cfg
         /\ environ' = IF r.on THEN Update(environ, x11_envar) ELSE environ
    /\ namespace' = "X11"
    /\ trace' = Append(trace, <<"x11", "check">>)
    /\ pc' = "backend"
    /\ UNCHANGED <<host, container, cmd, envs, runtime, profile, dot_vars, x11_args, binds, last>>

\* main, lines 147-149: enter refreshes forwarding first
X11Refresh ==
    /\ pc = "dispatch" /\ cmd = "enter"
    /\ namespace' = "X11"
    /\ trace' = Append(trace, <<"x11", "refresh">>)
    /\ pc' = "backend"
    /\ UNCHANGED <<host, fs, cfg, container, cmd, envs, runtime, profile, dot_vars,
                   environ, x11_args, binds, last>>

\* main, lines 164, 169, 174, 179: forwarding cleanup() after the backend returned
X11Cleanup ==
    /\ pc = "after"
    /\ cfg' \in x11_cleanup_results(fs, cfg)
    /\ namespace' = "X11"
    /\ trace' = Append(trace, <<"x11", "cleanup">>)
    /\ pc' = "done"
    /\ UNCHANGED <<host, fs, container, cmd, envs, runtime, profile, dot_vars,
                   environ, x11_args, binds, last>>

\* where main calls the backend's method for command c
AtBackend(c) ==
    /\ cmd = c
    /\ pc = IF c \in {"start", "enter"} THEN "backend" ELSE "dispatch"

\* where main goes when the backend's method for command c returned
AfterBackend(c) ==
    IF c \in {"stop", "hard_stop", "cleanup", "deep_cleanup"} THEN "after" ELSE "done"

Called(c) == <<"call", c>>

Returned(c) == <<"return", c>>


\* what the operator may type at a confirmation prompt
Answers == { <<"y">>, <<"Y">>, <<"Y", "e", "S">>, <<"n">>, <<>>, <<"y", "e">> }

\* one answer per prompt that may be made
AnswerLists(A) == [1..Len(workspace_dirs_to_remove) -> A]

\* exit statuses of the runtime exec
ExitCodes == {0, 1}

\* main line 146 -> ApptainerInterface.start
ImageStart(out) ==
    /\ AtBackend("start") /\ runtime = "apptainer"
    /\ LET r == start(fs, profile, out) IN
         /\ fs' = r.fs
         /\ cfg' = CfgOn(r.fs, cfg)
         /\ trace' = trace \o <<Called("start")>> \o r.ev
                     \o (IF r.ok THEN <<Returned("start")>> ELSE <<>>)
         /\ pc' = IF r.ok THEN AfterBackend("start") ELSE "fatal"
    /\ UNCHANGED <<host, container, cmd, envs, runtime, profile, dot_vars, environ,
                   namespace, x11_args, binds, last>>

\* main line 151 -> ApptainerInterface.enter
ImageEnter(rc) ==
    /\ AtBackend("enter") /\ runtime = "apptainer"
    /\ LET r == enter(fs, cfg, osenv, installed, profile, namespace, rc) IN
         /\ fs' = r.fs
         /\ cfg' = CfgOn(r.fs, cfg)
         /\ namespace' = r.ns
         /\ x11_args' = r.args
         /\ binds' = r.binds
         /\ trace' = trace \o <<Called("enter")>> \o r.ev
                     \o (IF r.ok THEN <<Returned("enter")>> ELSE <<>>)
         /\ pc' = IF r.ok THEN AfterBackend("enter") ELSE "fatal"
    /\ UNCHANGED <<host, container, cmd, envs, runtime, profile, dot_vars, environ, last>>

\* an image-backend method that only prints
ImagePrints(c, ev) ==
    /\ AtBackend(c) /\ runtime = "apptainer"
    /\ trace' = trace \o <<Called(c)>> \o ev \o <<Returned(c)>>
    /\ pc' = AfterBackend(c)
    /\ UNCHANGED <<host, fs, cfg, container, session, last>>

\* main line 162 -> ApptainerInterface.stop
ImageStop == ImagePrints("stop", stop)

\* main line 167 -> ApptainerInterface.hard_stop
ImageHardStop == ImagePrints("hard_stop", hard_stop)

\* main line 159 -> ApptainerInterface.copy
ImageCopy == ImagePrints("copy", copy)

\* main lines 152-156: config is not passed on to the image backend
ImageConfig ==
    /\ AtBackend("config") /\ runtime = "apptainer"
    /\ trace' = Append(trace, <<"print", "WARNING", "Config command not supported with Apptainer.">>)
    /\ pc' = AfterBackend("config")
    /\ UNCHANGED <<host, fs, cfg, container, session, last>>

\* main line 172 -> ApptainerInterface.cleanup
ImageCleanup(ans) ==
    /\ AtBackend("cleanup") /\ runtime = "apptainer"
    /\ LET r == cleanup(fs, installed, profile, ans) IN
         /\ fs' = r.fs
         /\ cfg' = CfgOn(r.fs, cfg)
         /\ trace' = trace \o <<Called("cleanup")>> \o r.ev \o <<Returned("cleanup")>>
    /\ pc' = AfterBackend("cleanup")
    /\ UNCHANGED <<host, container, session, last>>

\* main line 177: ApptainerInterface defines no deep_cleanup, so the
\* attribute lookup raises
ImageDeepCleanup ==
    /\ AtBackend("deep_cleanup") /\ runtime = "apptainer"
    /\ trace' = Append(trace, <<"raise", "AttributeError", "deep_cleanup">>)
    /\ pc' = "fatal"
    /\ UNCHANGED <<host, fs, cfg, container, session, last>>

\* The engine backend's methods (ContainerInterface is not among the
\* sources; design document, section 4.5): each runs the engine, which may
\* fail; enter needs the running container.
EngineResult(c, k, out) ==
    IF out = "failed" \/ (c = "enter" /\ k # "running")
    THEN [ok |-> FALSE, container |-> k]
    ELSE [ok |-> TRUE,
          container |-> CASE c = "start" -> "running"
                          [] c \in {"stop", "hard_stop", "cleanup", "deep_cleanup"} -> "absent"
                          [] OTHER -> k]

EngineOp(c, out) ==
    /\ AtBackend(c) /\ runtime = "docker" /\ c \in Commands
    /\ LET r == EngineResult(c, container, out) IN
         /\ container' = r.container
         /\ trace' = trace \o <<Called(c)>>
                     \o (IF r.ok THEN <<Returned(c)>>
                         ELSE << <<"raise", "CalledProcessError", c>> >>)
         /\ pc' = IF r.ok THEN AfterBackend(c) ELSE "fatal"
    /\ UNCHANGED <<host, fs, cfg, session, last>>

\* main lines 180-181
InvalidCommand ==
    /\ pc = "dispatch" /\ cmd \notin Commands
    /\ trace' = Append(trace, <<"raise", "RuntimeError", "Invalid command provided">>)
    /\ pc' = "fatal"
    /\ UNCHANGED <<host, fs, cfg, container, session, last>>

\* the process ends; the next invocation starts from the disk alone
ProcessEnds ==
    /\ pc \in {"done", "fatal"}
    /\ pc' = "idle"
    /\ cmd' = "" /\ envs' = None /\ runtime' = "" /\ profile' = ""
    /\ dot_vars' = EmptyMap /\ environ' = EmptyMap /\ namespace' = root_namespace
    /\ x11_args' = <<>> /\ binds' = <<>>
    /\ trace' = <<>>
    /\ UNCHANGED <<host, fs, cfg, container>>

Exit == ProcessEnds /\ UNCHANGED last

\* the same, keeping what the session was built from and what it built
ExitRemembered ==
    /\ ProcessEnds
    /\ last' = [args |-> trace[1], dot_vars |-> dot_vars, environ |-> environ]

----------------------------------------------------------------------------
(***************************************************************************)
(* Hosts the tool is started on.                                           *)
(***************************************************************************)
Closure(S) == UNION { Prefixes(q) : q \in S }

\* a checkout of the repository
BaseTree ==
    { context_dir,
      isaaclab_root \o <<"source">>, isaaclab_root \o <<"scripts">>,
      isaaclab_root \o <<"docs">>, isaaclab_root \o <<"tools">>,
      repo_root \o <<"libraries">> }

HostsOver(seeds) == { Closure(BaseTree \cup S) : S \in SUBSET seeds }

Flag(v) == [k \in {<<"X11", FlagKey>>} |-> v]

StateFilesOn(f) ==
    IF Exists(f, statefile_path) THEN { EmptyMap, Flag(<<"0">>), Flag(<<"1">>) }
    ELSE { EmptyMap }

WithDisplay == [k \in {<<"DISPLAY">>} |-> <<":0">>]

MainEnvFiles == [n \in {".env.base"} |-> << <<"A", "=", "1">> >>]

InitSession ==
    /\ pc = "idle"
    /\ cmd = "" /\ envs = None /\ runtime = "" /\ profile = ""
    /\ dot_vars = EmptyMap /\ environ = EmptyMap /\ namespace = root_namespace
    /\ x11_args = <<>> /\ binds = <<>>
    /\ trace = <<>>
    /\ last = [args |-> None, dot_vars |-> EmptyMap, environ |-> EmptyMap]

----------------------------------------------------------------------------
(***************************************************************************)
(* Spec: sequences of invocations of the tool, on hosts with any set of    *)
(* runtimes installed.                                                     *)
(***************************************************************************)
MainSeeds ==
    { image_path("base"),
      create_sif_script,
      assets_dir \o <<"NVIDIA">>,
      isaaclab_root \o <<"logs", "run1">> }

MainProfiles == {"base", "ros"}

MainAnswers == { <<"Y">>, <<"n">> }

Init ==
    /\ installed \in SUBSET Binaries
    /\ osenv = WithDisplay
    /\ fs \in IF detect_container_runtime(installed) = "apptainer"
              THEN HostsOver(MainSeeds) ELSE { Closure(BaseTree) }
    /\ cfg = EmptyMap
    /\ envfiles = MainEnvFiles
    /\ container \in IF "docker" \in installed THEN {"absent", "running"} ELSE {"absent"}
    /\ InitSession

Next ==
    \/ \E c \in AnyCommand, p \in MainProfiles : InvokeNoRuntime(c, p, None)
    \/ \E c \in AnyCommand, p \in MainProfiles : InvokeEngine(c, p, None)
    \/ \E c \in AnyCommand, p \in MainProfiles : InvokeImage(c, p, None)
    \/ X11Check
    \/ X11Refresh
    \/ X11Cleanup
    \/ \E out \in BuildOutcomes : ImageStart(out)
    \/ \E rc \in ExitCodes : ImageEnter(rc)
    \/ ImageStop
    \/ ImageHardStop
    \/ ImageCopy
    \/ ImageConfig
    \/ \E ans \in AnswerLists(MainAnswers) : ImageCleanup(ans)
    \/ ImageDeepCleanup
    \/ \E c \in Commands, out \in {"ok", "failed"} : EngineOp(c, out)
    \/ InvalidCommand
    \/ Exit

Spec == Init /\ [][Next]_vars

----------------------------------------------------------------------------
(***************************************************************************)
(* Reading a trace.                                                        *)
(***************************************************************************)
\* positions of the events of kind k in t
Of(t, k) == { i \in DOMAIN t : t[i][1] = k }

\* positions of the event e in t
At(t, e) == { i \in DOMAIN t : t[i] = e }

\* the events a step has added
Added(t, u) == SubSeq(u, Len(t) + 1, Len(u))

RunStartFirst == <<"raise", "RuntimeError", "Image does not exist. Run 'start' first.">>

----------------------------------------------------------------------------
(***************************************************************************)
(* C8.  The engine backend is selected whenever docker is found; the image *)
(* backend exactly when docker is not found and apptainer or singularity   *)
(* is; with none found the invocation fails at once: no backend is         *)
(* constructed, no variable file read, no forwarding call made and nothing *)
(* on the host changed.                                                    *)
(***************************************************************************)
NoRuntimeFound == installed \cap {"docker", "apptainer", "singularity"} = {}

C8_Selected ==
    pc # "idle" =>
      /\ ("docker" \in installed => runtime = "docker")
      /\ (runtime = "apptainer" <=>
            "docker" \notin installed
            /\ ("apptainer" \in installed \/ "singularity" \in installed))
      /\ (NoRuntimeFound =>
            /\ pc = "fatal" /\ runtime = "" /\ profile = ""
            /\ dot_vars = EmptyMap /\ environ = EmptyMap
            /\ Of(trace, "construct") = {} /\ Of(trace, "read_env") = {}
            /\ Of(trace, "x11") = {} /\ Of(trace, "call") = {}
            /\ Of(trace, "raise") = {2} /\ Len(trace) = 2)

C8_RuntimeSelection ==
    /\ []C8_Selected
    /\ [][NoRuntimeFound => fs' = fs /\ cfg' = cfg /\ container' = container]_vars

C8_Witness ==
    pc = "dispatch" /\ runtime = "docker" /\ installed = {"docker", "apptainer", "singularity"}

----------------------------------------------------------------------------
(***************************************************************************)
(* C3.  An operation the selected backend does not implement emits a       *)
(* non-fatal warning, does nothing and the invocation completes; stated    *)
(* for deep_cleanup, copy and config on the image backend: once main has   *)
(* dispatched the command, the invocation has not failed, a message was    *)
(* printed and nothing on the host was touched.                            *)
(***************************************************************************)
HostTouching == {"mkdir", "touch", "unlink", "rmtree", "proc"}

C3_UnimplementedIsNonFatal ==
    (runtime = "apptainer" /\ cmd \in {"deep_cleanup", "copy", "config"}
     /\ pc \in {"after", "done", "fatal"})
    => /\ pc # "fatal"
       /\ Of(trace, "raise") = {}
       /\ \E i \in Of(trace, "print") : trace[i] # Info("Using apptainer")
       /\ \A k \in HostTouching : Of(trace, k) = {}

----------------------------------------------------------------------------
(***************************************************************************)
(* C4.  On the image backend, enter called while the image file is missing *)
(* raises the "run start first" error: that is all it does; no process is  *)
(* launched and the filesystem is left as it was.                          *)
(***************************************************************************)
C4_EnterNeedsImage ==
    [][(pc = "backend" /\ cmd = "enter" /\ runtime = "apptainer"
        /\ image_path(profile) \notin fs)
       => /\ pc' = "fatal"
          /\ fs' = fs
          /\ Added(trace, trace') = <<Called("enter"), RunStartFirst>>]_vars

C4_Witness ==
    /\ pc = "fatal" /\ cmd = "enter" /\ runtime = "apptainer"
    /\ trace[Len(trace)] = RunStartFirst
    /\ image_path("ros") \in fs /\ profile = "base"

----------------------------------------------------------------------------
----------------------------------------------------------------------------
(***************************************************************************)
(* C6.  When the bind-mount planner has returned its table to enter, the   *)
(* host path of every pair of the table exists.                            *)
(***************************************************************************)
HostPath(bind) == Tail(bind[1])

C6_EveryHostPathExists ==
    \A i \in DOMAIN binds : Exists(fs, HostPath(binds[i]))

----------------------------------------------------------------------------
(***************************************************************************)
(* C7.  On either backend: start is preceded by exactly one forwarding     *)
(* check(), enter by exactly one refresh(); an invocation of stop,         *)
(* hard_stop, cleanup or deep_cleanup in which no external process failed  *)
(* ends with exactly one forwarding cleanup(), made after the backend's    *)
(* operation returned; config and copy make no forwarding call.            *)
(***************************************************************************)
X11Calls(what) == At(trace, <<"x11", what>>)

C7_ForwardingOrder ==
    /\ \A i \in At(trace, Called("start")) :
          /\ Cardinality(Of(trace, "x11")) = 1
          /\ \E j \in X11Calls("check") : j < i
    /\ \A i \in At(trace, Called("enter")) :
          /\ Cardinality(Of(trace, "x11")) = 1
          /\ \E j \in X11Calls("refresh") : j < i
    /\ (cmd \in {"stop", "hard_stop", "cleanup", "deep_cleanup"}
        /\ pc \in {"done", "fatal"} /\ runtime # ""
        /\ At(trace, <<"raise", "CalledProcessError", cmd>>) = {})
       => /\ Cardinality(Of(trace, "x11")) = 1
          /\ \E j \in X11Calls("cleanup") : \E i \in At(trace, Returned(cmd)) : i < j
    /\ cmd \in {"config", "copy"} => Of(trace, "x11") = {}

----------------------------------------------------------------------------
(***************************************************************************)
(* C10.  Image-backend start runs the build script exactly when the image  *)
(* file is missing and the script is there; with the image present no      *)
(* process is run; missing asset packs only add informational messages and *)
(* start goes on to the image; with image and script both missing start    *)
(* fails without running any process.                                      *)
(***************************************************************************)
AssetsPresent(f) ==
    /\ assets_dir \in f /\ (assets_dir \o <<"NVIDIA">>) \in f
    /\ (assets_dir \o <<"Isaac">>) \in f

C10_Step ==
    LET new    == Added(trace, trace')
        image  == image_path(profile) \in fs
        script == create_sif_script \in fs
    IN  /\ (Of(new, "proc") # {}) <=> (~image /\ script)
        /\ \A i \in Of(new, "proc") : new[i][2] = "create_sif.sh"
        /\ Cardinality(Of(new, "proc")) <= 1
        /\ image => (pc' = "done" /\ Of(new, "raise") = {})
        /\ (~image /\ ~script) =>
              (pc' = "fatal" /\ new[Len(new)][1] = "raise" /\ new[Len(new)][2] = "RuntimeError")
        /\ ~AssetsPresent(fs) =>
              /\ At(new, Info("Isaac Sim assets not found")) # {}
              /\ \A i \in Of(new, "raise") :
                    \E j \in At(new, Info("Image does not exist. Creating it")) : j < i
              /\ \A i \in DOMAIN new : new[i][1] = "print" => new[i][2] \in {"INFO", "ERROR"}

C10_BuildOnlyWhenMissing ==
    [][(pc = "backend" /\ cmd = "start" /\ runtime = "apptainer") => C10_Step]_vars

C10_Witness ==
    /\ pc = "done" /\ cmd = "start" /\ runtime = "apptainer"
    /\ At(trace, Info("Isaac Sim assets not found")) # {}
    /\ At(trace, <<"proc", "create_sif.sh", 0>>) # {}
    /\ image_path(profile) \in fs

----------------------------------------------------------------------------
(***************************************************************************)
(* SpecX11: the image backend on hosts that differ in what display         *)
(* forwarding looks at: the state file and its entries, DISPLAY, and the   *)
(* socket directory.  The image of the base profile is in place.           *)
(***************************************************************************)
X11Seeds == { statefile_path, X11Socket }

X11Tree == BaseTree \cup { image_path("base"), create_sif_script }

\* the process environments: DISPLAY unset, set, set to the empty string
X11Envs == { EmptyMap, WithDisplay, [k \in {<<"DISPLAY">>} |-> <<>>] }

\* contents of an existing state file: no entry, the flag with some value
\* in namespace X11, the flag under the root namespace only
X11StateFiles(f) ==
    IF Exists(f, statefile_path)
    THEN { EmptyMap, Flag(<<"0">>), Flag(<<"1">>), Flag(<<"t", "r", "u", "e">>),
           [k \in {<<root_namespace, FlagKey>>} |-> <<"1">>] }
    ELSE { EmptyMap }

X11Commands == {"start", "enter", "stop", "cleanup"}

InitX11 ==
    /\ installed \in { {"apptainer"}, {"singularity"} }
    /\ osenv \in X11Envs
    /\ fs \in { Closure(X11Tree \cup S) : S \in SUBSET X11Seeds }
    /\ cfg \in X11StateFiles(fs)
    /\ envfiles = MainEnvFiles
    /\ container = "absent"
    /\ InitSession

NextX11 ==
    \/ \E c \in X11Commands : InvokeImage(c, "base", None)
    \/ X11Check
    \/ X11Refresh
    \/ X11Cleanup
    \/ ImageStart("built")
    \/ \E rc \in ExitCodes : ImageEnter(rc)
    \/ ImageStop
    \/ \E ans \in AnswerLists({ <<"n">> }) : ImageCleanup(ans)
    \/ Exit

SpecX11 == InitX11 /\ [][NextX11]_vars

\* C2: on the image backend, the forwarding arguments enter computes are
\* non-empty if and only if the state file holds X11_FORWARDING_ENABLED = "1"
\* in namespace "X11" and DISPLAY is set in the process environment and
\* /tmp/.X11-unix exists; when non-empty they are the DISPLAY variable and
\* the bind of the socket directory, and in every other case (the state file
\* not existing included) the list is empty.
C2_Effective ==
    /\ statefile_path \in fs
    /\ <<"X11", <<"X11_FORWARDING_ENABLED">>>> \in DOMAIN cfg
    /\ cfg[<<"X11", <<"X11_FORWARDING_ENABLED">>>>] = <<"1">>
    /\ <<"DISPLAY">> \in DOMAIN osenv
    /\ <<"tmp", ".X11-unix">> \in fs

C2_EnterComputes ==
    /\ pc = "backend" /\ cmd = "enter" /\ runtime = "apptainer"
    /\ image_path(profile) \in fs
    /\ pc' # "backend"

C2_Step ==
    C2_EnterComputes =>
        /\ (x11_args' # <<>>) <=> C2_Effective
        /\ C2_Effective =>
             x11_args' = << <<"--env">>, <<"DISPLAY=">> \o osenv[<<"DISPLAY">>],
                            <<"--bind">>, <<"/tmp/.X11-unix:/tmp/.X11-unix:rw">> >>
        /\ C2_Effective <=> At(Added(trace, trace'), Info("X11 forwarding is enabled.")) # {}

C2_ForwardingArgsIffEffective == [][C2_Step]_vars

\* enter has returned with forwarding arguments, all three conditions holding
C2_Witness ==
    /\ cmd = "enter" /\ pc = "done" /\ runtime = "apptainer"
    /\ x11_args # <<>>
    /\ C2_Effective

----------------------------------------------------------------------------
(***************************************************************************)
(* SpecCleanup: cleanup on the image backend, from hosts holding any       *)
(* subset of what it removes, with whatever the operator types at each     *)
(* prompt.                                                                 *)
(***************************************************************************)
CleanupSeeds ==
    { image_path("base"),
      vol_root \o <<"kit", "cache">>,
      bash_history_file,
      statefile_path,
      isaaclab_root \o <<"logs", "run1">>,
      isaaclab_root \o <<"outputs">>,
      isaaclab_root \o <<"data_storage", "ckpt">> }

InitCleanup ==
    /\ installed \in { {"apptainer"}, {"singularity"} }
    /\ osenv = WithDisplay
    /\ fs \in HostsOver(CleanupSeeds)
    /\ cfg = CfgOn(fs, Flag(<<"1">>))
    /\ envfiles = MainEnvFiles
    /\ container = "absent"
    /\ InitSession

NextCleanup ==
    \/ \E p \in MainProfiles : InvokeImage("cleanup", p, None)
    \/ \E ans \in AnswerLists(Answers) : ImageCleanup(ans)
    \/ X11Cleanup
    \/ Exit

SpecCleanup == InitCleanup /\ [][NextCleanup]_vars

\* the answers that are y or yes in some mix of cases
C9_Yes ==
    { <<a>> : a \in {"y", "Y"} }
    \cup { <<a, b, c>> : a \in {"y", "Y"}, b \in {"e", "E"}, c \in {"s", "S"} }

C9_Volumes ==
    { <<"repo", "docker_volumes", d>> :
        d \in {"kit", "cache", "config", "logs", "data", "docs", "shell_history", "tmp"} }

C9_Project == { <<"repo", "isaaclab", d>> : d \in {"logs", "outputs", "data_storage"} }

C9_Below(f, d) == { q \in f : IsPrefix(d, q) }

\* C9: cleanup on the image backend, from any host state, returns with the
\* image file absent and each of the eight designated volume directories
\* absent; every removal of the image or of a volume directory comes before
\* the first confirmation prompt; a project directory (logs, outputs,
\* data_storage) that exists is prompted for exactly once and is removed when
\* the answer to its own prompt is y or yes in any case and kept untouched
\* otherwise; a project directory that does not exist is not prompted for;
\* nothing else on the host is removed.
C9_Step ==
    (pc = "dispatch" /\ cmd = "cleanup" /\ runtime = "apptainer" /\ pc' # "dispatch") =>
        LET u == Added(trace, trace')
            prompts == Of(u, "input")
            image == image_path(profile)
        IN  /\ pc' = "after"
            /\ image \notin fs'
            /\ \A v \in C9_Volumes : C9_Below(fs', v) = {}
            /\ \A i \in prompts :
                 /\ image \in fs => \E j \in 1..(i - 1) : u[j] = <<"unlink", image>>
                 /\ \A v \in C9_Volumes :
                      v \in fs => \E j \in 1..(i - 1) : u[j] = <<"rmtree", v>>
                 /\ \A j \in Of(u, "unlink") : j < i
                 /\ \A j \in Of(u, "rmtree") : u[j][2] \in C9_Volumes => j < i
            /\ \A d \in C9_Project :
                 LET mine == { i \in prompts : u[i][2] = d } IN
                 IF d \in fs
                 THEN /\ Cardinality(mine) = 1
                      /\ \A i \in mine :
                           IF u[i][3] \in C9_Yes
                           THEN C9_Below(fs', d) = {}
                           ELSE C9_Below(fs', d) = C9_Below(fs, d)
                 ELSE mine = {} /\ d \notin fs'
            /\ fs' \subseteq fs
            /\ \A q \in fs \ fs' :
                 q = image \/ \E d \in C9_Volumes \cup C9_Project : IsPrefix(d, q)

C9_CleanupRemovesThenAsks == [][C9_Step]_vars

\* cleanup has returned after removing the image and volume directories,
\* deleting the logs directory on YeS and keeping outputs on ye
C9_Witness ==
    /\ pc = "after" /\ cmd = "cleanup" /\ runtime = "apptainer"
    /\ At(trace, <<"unlink", image_path(profile)>>) # {}
    /\ At(trace, <<"rmtree", vol_root \o <<"kit">>>>) # {}
    /\ At(trace, <<"input", isaaclab_root \o <<"logs">>, <<"Y", "e", "S">>>>) # {}
    /\ At(trace, <<"input", isaaclab_root \o <<"outputs">>, <<"y", "e">>>>) # {}
    /\ isaaclab_root \o <<"logs">> \notin fs
    /\ isaaclab_root \o <<"outputs">> \in fs

----------------------------------------------------------------------------
(***************************************************************************)
(* SpecEnv: the image backend is constructed for every profile and every   *)
(* list of extra variable files, over checkouts that hold different        *)
(* variable files.                                                         *)
(***************************************************************************)
ExtraNames == {"e1", "e2"}

\* the variable files of a checkout, by name: each a sequence of lines
EnvFileSets ==
    { EmptyMap,
      [n \in {".env.base", ".env.ros", ".env.isaaclab", "e1", "e2"} |->
         CASE n = ".env.base" -> << <<"A", "=", "1">>, <<"#", " ", "c">>, <<>>,
                                    <<"B", "=", "x", "=", "y">> >>
           [] n = ".env.ros" -> << <<"A", "=", "2">>, <<"HEADLESS", "=", "0">> >>
           [] n = ".env.isaaclab" -> << <<"A", "=", "7">> >>
           [] n = "e1" -> << <<" ", "A", " ", "=", " ", "3", " ">>, <<"C", "=", "1">>,
                             <<"C", "=", "2">>, <<"A", "=", "3">> >>
           [] OTHER -> << <<"A", "=", "4">>, <<"n", "o", "v", "a", "l", "u", "e">>,
                          <<"APPTAINERENV_", "A", "=", "9">>, <<"\t", "#", "A", "=", "5">> >> ],
      [n \in {".env.ros", "e1"} |->
         IF n = ".env.ros" THEN << <<"A", "=", "2">> >> ELSE << <<"A", "=">> >> ],
      [n \in {".env.base", "e2"} |->
         IF n = ".env.base" THEN << <<"HEADLESS", "=", "0">>, <<"A", "=", "1">> >>
         ELSE << <<"=", "v">>, <<"HEADLESS", "=", "1">>, <<"TMP", "=", "/", "s">> >> ] }

InitEnv ==
    /\ installed = {"apptainer"}
    /\ osenv \in { EmptyMap, WithDisplay }
    /\ fs = Closure(BaseTree)
    /\ cfg = EmptyMap
    /\ envfiles \in EnvFileSets
    /\ container = "absent"
    /\ InitSession

NextEnv ==
    \/ \E p \in Profiles, e \in SeqsUpTo(ExtraNames, MaxEnvs) \cup {None} :
         InvokeImage("config", p, e)
    \/ ImageConfig
    \/ ExitRemembered

SpecEnv == InitEnv /\ [][NextEnv]_vars

\* the names the sources are given by, in the claimed order
C1_Sources(p, e) ==
    <<"defaults", ".env.base">>
    \o (IF p \notin {"base", "isaaclab"} THEN <<".env." \o p>> ELSE <<>>)
    \o (IF e = None THEN <<>> ELSE e)

C1_Defaults ==
    { <<"HEADLESS">>, <<"ENABLE_CAMERAS">>, <<"LIVESTREAM">>, <<"ISAACSIM_ASSET_ROOT">>,
      <<"HISTFILE">>, <<"HISTSIZE">>, <<"HISTFILESIZE">>, <<"TMPDIR">>, <<"TEMP">>, <<"TMP">> }

\* the <<key, value>> pairs a source gives, in its own order
C1_Gives(n) ==
    IF n = "defaults" THEN default_vars
    ELSE IF n \notin DOMAIN envfiles THEN <<>>
    ELSE SelectSeq([i \in DOMAIN envfiles[n] |-> ParseLine(envfiles[n][i])],
                   LAMBDA pr : pr # None)

C1_Defines(n, k) == \E i \in DOMAIN C1_Gives(n) : C1_Gives(n)[i][1] = k

\* the value source n gives key k: that of its last line for k
C1_Value(n, k) ==
    LET g == C1_Gives(n)
        i == CHOOSE i \in DOMAIN g :
               g[i][1] = k /\ \A j \in DOMAIN g : j > i => g[j][1] # k
    IN  g[i][2]

\* C1: for every profile and every ordered list of extra variable files,
\* the variable set the image backend builds contains every hardcoded
\* default key, holds exactly the keys some source defines, and gives each
\* key the value of the last source defining it in the order hardcoded
\* defaults, base file, profile file (when the profile is not the base
\* profile), extra files as listed; a second construction from the same
\* profile and list builds the same variable set.
C1_LayeringIsOrderedAndDeterministic ==
    (pc = "dispatch" /\ runtime = "apptainer") =>
        LET src == C1_Sources(trace[1][3], trace[1][4]) IN
        /\ C1_Defaults \subseteq DOMAIN dot_vars
        /\ \A k \in DOMAIN dot_vars :
             /\ \E i \in DOMAIN src : C1_Defines(src[i], k)
             /\ LET i == CHOOSE i \in DOMAIN src :
                           C1_Defines(src[i], k)
                           /\ \A j \in DOMAIN src : j > i => ~C1_Defines(src[j], k)
                IN  dot_vars[k] = C1_Value(src[i], k)
        /\ \A i \in DOMAIN src : \A j \in DOMAIN C1_Gives(src[i]) :
             C1_Gives(src[i])[j][1] \in DOMAIN dot_vars
        /\ (last.args # None /\ last.args[3] = trace[1][3] /\ last.args[4] = trace[1][4])
             => dot_vars = last.dot_vars

\* the profile's file and two extra files all define A and the last listed
\* extra file has given its value; the same arguments were used before
C1_Witness ==
    /\ pc = "dispatch" /\ runtime = "apptainer"
    /\ trace[1] = Args("config", "ros", <<"e2", "e1">>)
    /\ \A n \in {".env.base", ".env.ros", "e1", "e2"} : C1_Defines(n, <<"A">>)
    /\ dot_vars[<<"A">>] = <<"3">>
    /\ dot_vars[<<"HEADLESS">>] = <<"0">>
    /\ last.args = trace[1]

----------------------------------------------------------------------------
(***************************************************************************)
(* SpecPlanner: a constructed image backend whose mount planner is called  *)
(* again and again, on hosts holding any part of what it creates.          *)
(***************************************************************************)
MaxPlans == 3       \* calls of the planner in one behaviour

PlannerSeeds ==
    { vol_root \o <<"kit", "cache">>,
      vol_root \o <<"kit", "logs", "Kit">>,
      vol_root \o <<"assets", "Assets", "Isaac", "4.5">>,
      vol_root \o <<"cache", "nvidia">>,
      vol_root \o <<"docs">>,
      vol_root \o <<"shell_history">>,
      bash_history_file,
      vol_root \o <<"tmp">>,
      isaaclab_root \o <<"logs">> }

InitPlanner ==
    /\ installed = {"apptainer"}
    /\ osenv = WithDisplay
    /\ fs \in HostsOver(PlannerSeeds)
    /\ cfg = EmptyMap
    /\ envfiles = MainEnvFiles
    /\ container = "absent"
    /\ pc = "planner"
    /\ cmd = "" /\ envs = None /\ runtime = "apptainer"
    /\ LET ci == ApptainerInit(osenv, envfiles, "base", None) IN
         profile = ci.profile /\ dot_vars = ci.dot_vars /\ environ = ci.environ
    /\ namespace = root_namespace
    /\ x11_args = <<>> /\ binds = <<>>
    /\ trace = <<>>
    /\ last = [args |-> None, dot_vars |-> EmptyMap, environ |-> EmptyMap]

\* one call of ApptainerInterface._get_bind_mounts
PlanMounts ==
    /\ pc = "planner"
    /\ Cardinality(At(trace, Called("_get_bind_mounts"))) < MaxPlans
    /\ LET r == get_bind_mounts(fs) IN
         /\ fs' = r.fs
         /\ cfg' = CfgOn(r.fs, cfg)
         /\ binds' = r.binds
         /\ trace' = trace \o <<Called("_get_bind_mounts")>> \o r.ev
                     \o <<Returned("_get_bind_mounts")>>
    /\ UNCHANGED <<host, container, pc, cmd, envs, runtime, profile, dot_vars, environ,
                   namespace, x11_args, last>>

NextPlanner == PlanMounts

SpecPlanner == InitPlanner /\ [][NextPlanner]_vars

\* C11: the planner is idempotent.  From every filesystem state, a call
\* that follows an earlier call returns the same ordered mount table as
\* that call, raises nothing, creates nothing (no directory made, the
\* history file not touched) and leaves the filesystem as it found it.
C11_Step ==
    (pc = "planner" /\ trace' # trace /\ At(trace, Returned("_get_bind_mounts")) # {}) =>
        /\ binds' = binds
        /\ fs' = fs
        /\ Added(trace, trace') = <<Called("_get_bind_mounts"), Returned("_get_bind_mounts")>>

C11_PlannerIdempotent == [][C11_Step]_vars

\* a second call has returned after a first one that had directories and
\* the history file to create
C11_Witness ==
    /\ pc = "planner"
    /\ Cardinality(At(trace, Returned("_get_bind_mounts"))) = 2
    /\ Of(trace, "mkdir") # {} /\ Of(trace, "touch") # {}
    /\ Len(binds) = Len(volume_map)

----------------------------------------------------------------------------
\* C12: once the image backend is constructed, the variable set is
\* mirrored exactly: for every key k of the variable set the process-level
\* environment maps k to the variable set's value for k, and maps
\* APPTAINERENV_ followed by k to that same value, whatever the variable
\* files hold, keys beginning with the prefix included.
C12_MirroredExactly ==
    (pc = "dispatch" /\ runtime = "apptainer") =>
        \A k \in DOMAIN dot_vars :
            /\ k \in DOMAIN environ
            /\ environ[k] = dot_vars[k]
            /\ <<"APPTAINERENV_">> \o k \in DOMAIN environ
            /\ environ[<<"APPTAINERENV_">> \o k] = dot_vars[k]

----------------------------------------------------------------------------
\* C13: a session constructed with profile "isaaclab" is the base
\* profile's: the resolved profile is "base", the container and image names
\* are those of "base", the variable files read are .env.base once and then
\* the extra files (no .env.isaaclab, no second .env.base), and the variable
\* set equals the one a construction with profile "base" and the same extra
\* files built.
C13_AliasIsBase ==
    (pc = "dispatch" /\ runtime = "apptainer" /\ trace[1][3] = "isaaclab") =>
        /\ profile = "base"
        /\ container_name(profile) = "isaac-lab-base"
        /\ image_name(profile) = "isaac-lab-base.sif"
        /\ image_path(profile) = <<"repo", "hyak_transfer", "isaac-lab-base.sif">>
        /\ trace[3] = <<"read_env",
                        <<".env.base">> \o (IF envs = None THEN <<>> ELSE envs)>>
        /\ (last.args # None /\ last.args[3] = "base" /\ last.args[4] = envs)
             => dot_vars = last.dot_vars

\* the alias was given on a checkout that holds a file .env.isaaclab, with
\* an extra file, right after a construction for "base" with the same file
C13_Witness ==
    /\ pc = "dispatch" /\ runtime = "apptainer"
    /\ trace[1] = Args("config", "isaaclab", <<"e1">>)
    /\ {".env.base", ".env.isaaclab", "e1"} \subseteq DOMAIN envfiles
    /\ last.args = Args("config", "base", <<"e1">>)
    /\ dot_vars = last.dot_vars
    /\ dot_vars[<<"A">>] = <<"3">>

----------------------------------------------------------------------------
\* C14: on the image backend, stop, hard_stop, copy and config each print
\* an explanatory message and complete without error, and no step of such
\* an invocation changes the filesystem (the image file and every host
\* directory stay as they were) or the session's variable set; so an image
\* that enter would find before the operation is still found after it.
C14_Quiet == {"stop", "hard_stop", "copy", "config"}

C14_Step ==
    (runtime = "apptainer" /\ cmd \in C14_Quiet /\ pc \in {"dispatch", "after"}) =>
        /\ pc' \in {"after", "done"}
        /\ fs' = fs
        /\ dot_vars' = dot_vars /\ profile' = profile
        /\ Of(Added(trace, trace'), "raise") = {}
        /\ pc = "dispatch" => Of(Added(trace, trace'), "print") # {}
        /\ \A p \in Profiles :
             enter(fs, cfg, osenv, installed, p, namespace, 0).ev[1] # RunStartFirst
             => enter(fs', cfg', osenv', installed', p, namespace', 0).ev[1] # RunStartFirst

C14_NoOpsSayAndKeep == [][C14_Step]_vars

\* stop has completed, forwarding cleanup included, on a host with the image
C14_Witness ==
    /\ runtime = "apptainer" /\ cmd = "stop" /\ pc = "done"
    /\ At(trace, Info("Apptainer containers are ephemeral - nothing to stop.")) # {}
    /\ At(trace, Returned("stop")) # {}
    /\ image_path(profile) \in fs

----------------------------------------------------------------------------
(***************************************************************************)
(* SpecStateFile: one StateFile handle, written, read and switched between *)
(* namespaces in any order, the backing file there or not at the outset.   *)
(***************************************************************************)
MaxOps == 4         \* calls made on the handle in one behaviour

StateNamespaces == {root_namespace, "X11"}

StateKeys == { FlagKey, <<"K">> }

StateValues == { <<"0">>, <<"1">> }

InitStateFile ==
    /\ installed = {"apptainer"}
    /\ osenv = WithDisplay
    /\ fs \in { Closure(BaseTree), Closure(BaseTree \cup {statefile_path}) }
    /\ cfg = EmptyMap
    /\ envfiles = MainEnvFiles
    /\ container = "absent"
    /\ pc = "statefile"
    /\ cmd = "" /\ envs = None /\ runtime = "" /\ profile = ""
    /\ dot_vars = EmptyMap /\ environ = EmptyMap
    /\ namespace = root_namespace
    /\ x11_args = <<>> /\ binds = <<>>
    /\ trace = <<>>
    /\ last = [args |-> None, dot_vars |-> EmptyMap, environ |-> EmptyMap]

StateFileFrame ==
    UNCHANGED <<host, container, pc, cmd, envs, runtime, profile, dot_vars, environ,
                x11_args, binds, last>>

\* statefile.set_variable(k, v)
StateFileSet(k, v) ==
    /\ pc = "statefile" /\ Len(trace) < MaxOps
    /\ fs' = StateSetFs(fs)
    /\ cfg' = StateSetCfg(fs, cfg, namespace, k, v)
    /\ trace' = Append(trace, <<"set", namespace, k, v>>)
    /\ UNCHANGED namespace
    /\ StateFileFrame

\* statefile.get_variable(k)
StateFileGet(k) ==
    /\ pc = "statefile" /\ Len(trace) < MaxOps
    /\ trace' = Append(trace, <<"get", namespace, k, StateGet(fs, cfg, namespace, k)>>)
    /\ UNCHANGED <<fs, cfg, namespace>>
    /\ StateFileFrame

\* statefile.namespace = n
StateFileNamespace(n) ==
    /\ pc = "statefile" /\ Len(trace) < MaxOps
    /\ n # namespace
    /\ namespace' = n
    /\ trace' = Append(trace, <<"namespace", n>>)
    /\ UNCHANGED <<fs, cfg>>
    /\ StateFileFrame

NextStateFile ==
    \/ \E k \in StateKeys, v \in StateValues : StateFileSet(k, v)
    \/ \E k \in StateKeys : StateFileGet(k)
    \/ \E n \in StateNamespaces : StateFileNamespace(n)

SpecStateFile == InitStateFile /\ [][NextStateFile]_vars

\* the sets of key k made under namespace n before position i of the trace
C15_SetsBefore(i, n, k) ==
    { j \in 1..(i - 1) : trace[j][1] = "set" /\ trace[j][2] = n /\ trace[j][3] = k }

\* C15: after any sequence of set calls and namespace switches, a get of
\* key k under namespace n returns the value of the most recent set of k
\* made while n was the active namespace, and absent when no set of k was
\* made under n (a set of k under another namespace does not show); while
\* the backing file does not exist every get returns absent.
C15_GetReturnsLastSetOfNamespace ==
    pc = "statefile" =>
        /\ \A i \in Of(trace, "get") :
             LET S == C15_SetsBefore(i, trace[i][2], trace[i][3]) IN
             trace[i][4] = IF S = {} THEN None
                           ELSE trace[CHOOSE j \in S : \A h \in S : h <= j][4]
        /\ statefile_path \notin fs =>
             \A n \in StateNamespaces, k \in StateKeys : StateGet(fs, cfg, n, k) = None

\* a key set under both namespaces with different values was read back
\* under X11 after the switch, and had read absent there before its set
C15_Witness ==
    /\ pc = "statefile"
    /\ trace = << <<"set", "root", FlagKey, <<"0">>>>,
                  <<"namespace", "X11">>,
                  <<"get", "X11", FlagKey, None>>,
                  <<"set", "X11", FlagKey, <<"1">>>> >>
    /\ StateGet(fs, cfg, "X11", FlagKey) = <<"1">>
    /\ StateGet(fs, cfg, "root", FlagKey) = <<"0">>

----------------------------------------------------------------------------
(***************************************************************************)
(* SpecParse: the file loop of _load_env_files, one line or one missing    *)
(* file at a time, on the variable set the defaults left.                  *)
(***************************************************************************)
MaxLines == 2       \* lines and files read in one behaviour

\* lines as the file gives them
ParseLines ==
    { <<>>, <<" ">>, <<"\t", "\n">>,
      <<"#", "A", "=", "1">>, <<" ", "#", "A", "=", "1">>,
      <<"A">>, <<"A", " ", "1">>,
      <<"A", "=", "1">>, <<"A", "=", "2", "\n">>, <<"A", "=", "1", "=", "2">>,
      <<"=", "1">>, <<"A", "=">>, <<"A", "=", "#">>,
      <<" ", "A", "=", "1">>, <<"A", " ", "=", " ", "1">>,
      <<"HEADLESS", "=", "0">>, <<"B", "=", "=">> }

ParseFileNames == {".env.base", ".env.ros", "e1"}

InitParse ==
    /\ installed = {"apptainer"}
    /\ osenv = EmptyMap
    /\ fs = Closure(BaseTree)
    /\ cfg = EmptyMap
    /\ envfiles = MainEnvFiles
    /\ container = "absent"
    /\ pc = "reading"
    /\ cmd = "" /\ envs = None /\ runtime = "apptainer" /\ profile = "base"
    /\ LET st == ApplyPairs([dot |-> EmptyMap, env |-> osenv], default_vars) IN
         dot_vars = st.dot /\ environ = st.env
    /\ namespace = root_namespace
    /\ x11_args = <<>> /\ binds = <<>>
    /\ trace = <<>>
    /\ last = [args |-> None, dot_vars |-> EmptyMap, environ |-> EmptyMap]

ParseFrame ==
    UNCHANGED <<host, fs, cfg, container, pc, cmd, envs, runtime, profile,
                namespace, x11_args, binds, last>>

\* lines 95-102: the loop body, for one line of an open file
ReadLine(line) ==
    /\ pc = "reading" /\ Len(trace) < MaxLines
    /\ LET st == ApplyLine([dot |-> dot_vars, env |-> environ], line) IN
         dot_vars' = st.dot /\ environ' = st.env
    /\ trace' = Append(trace, <<"line", line>>)
    /\ ParseFrame

\* lines 90-102: one file of the list, there or not
ReadFile(n) ==
    /\ pc = "reading" /\ Len(trace) < MaxLines
    /\ LET st == ApplyFiles([dot |-> dot_vars, env |-> environ], envfiles, <<n>>) IN
         dot_vars' = st.dot /\ environ' = st.env
    /\ trace' = Append(trace, <<"file", n>>)
    /\ ParseFrame

NextParse ==
    \/ \E line \in ParseLines : ReadLine(line)
    \/ \E n \in ParseFileNames : ReadFile(n)

SpecParse == InitParse /\ [][NextParse]_vars

\* the line the step read, when the step read a line, without its terminator
C16_Line ==
    LET l == trace'[Len(trace')][2] IN
    IF l # <<>> /\ l[Len(l)] = "\n" THEN SubSeq(l, 1, Len(l) - 1) ELSE l

C16_ReadsLine == pc = "reading" /\ Len(trace') = Len(trace) + 1
                 /\ trace'[Len(trace')][1] = "line"

\* l split at its first "=": <<text before, text after>>
C16_Split(l) ==
    LET i == CHOOSE i \in DOMAIN l : l[i] = "=" /\ \A j \in 1..(i - 1) : l[j] # "="
    IN  <<SubSeq(l, 1, i - 1), SubSeq(l, i + 1, Len(l))>>

C16_Sets(l) == Put(dot_vars, C16_Split(l)[1], C16_Split(l)[2])

\* C16, as claimed: a blank line, a line starting with the comment marker
\* and a line holding no "=" leave the variable set unchanged; every other
\* line sets the text before its first "=" as key and all that follows it
\* as value; a file that does not exist is skipped, the variable set
\* unchanged.
C16_LiteralStep ==
    /\ C16_ReadsLine =>
         IF Range(C16_Line) \subseteq Whitespace \/ C16_Line[1] = "#"
            \/ "=" \notin Range(C16_Line)
         THEN dot_vars' = dot_vars
         ELSE dot_vars' = C16_Sets(C16_Line)
    /\ (pc = "reading" /\ Len(trace') = Len(trace) + 1 /\ trace'[Len(trace')][1] = "file"
        /\ trace'[Len(trace')][2] \notin DOMAIN envfiles)
         => dot_vars' = dot_vars /\ environ' = environ /\ pc' = pc

C16_LinesSplitAsGiven == [][C16_LiteralStep]_vars

\* C16, amended: each line is first stripped of leading and trailing
\* whitespace; a stripped line that is empty, starts with the comment
\* marker or holds no "=" leaves the variable set unchanged; every other
\* stripped line sets the text before its first "=" as key and all that
\* follows it (further "=" included) as value, neither trimmed further; a
\* file that does not exist is skipped, the variable set unchanged.
C16_StrippedStep ==
    /\ C16_ReadsLine =>
         LET s == Strip(C16_Line) IN
         IF s = <<>> \/ s[1] = "#" \/ "=" \notin Range(s)
         THEN dot_vars' = dot_vars /\ environ' = environ
         ELSE dot_vars' = C16_Sets(s)
    /\ (pc = "reading" /\ Len(trace') = Len(trace) + 1 /\ trace'[Len(trace')][1] = "file"
        /\ trace'[Len(trace')][2] \notin DOMAIN envfiles)
         => dot_vars' = dot_vars /\ environ' = environ /\ pc' = pc

C16_StrippedLinesSplitAtFirstEq == [][C16_StrippedStep]_vars

\* a line with two "=" and then an indented line were read: the first set
\* A to the text after its first "=", the second set the key A once more
C16_Witness ==
    /\ pc = "reading"
    /\ trace = << <<"line", <<"A", "=", "1", "=", "2">>>>,
                  <<"line", <<" ", "A", "=", "1">>>> >>
    /\ dot_vars[<<"A">>] = <<"1">>
    /\ <<" ", "A">> \notin DOMAIN dot_vars

----------------------------------------------------------------------------
\* C17: on the image backend, whenever start returns without error for a
\* profile, that profile's image file exists afterwards, so an enter for
\* the same profile that comes next does not raise the "run start first"
\* error.
C17_Step ==
    (runtime = "apptainer" /\ cmd = "start" /\ pc = "backend" /\ pc' = "done") =>
        /\ image_path(profile) \in fs'
        /\ enter(fs', cfg', osenv', installed', profile, root_namespace, 0).ev[1]
             # RunStartFirst

C17_StartLeavesImage == [][C17_Step]_vars

----------------------------------------------------------------------------
\* C18: when the image backend is selected (apptainer only, singularity
\* only, or both installed), the runtime binary enter executes is one that
\* is installed on the host: enter, finding its image, launches the runtime
\* and does not fail for want of the binary.
C18_Step ==
    (runtime = "apptainer" /\ cmd = "enter" /\ pc = "backend"
     /\ image_path(profile) \in fs /\ pc' # "backend") =>
        /\ "apptainer" \in installed
        /\ Of(Added(trace, trace'), "proc") # {}
        /\ At(Added(trace, trace'), <<"raise", "FileNotFoundError", "apptainer">>) = {}
        /\ pc' = "done"

C18_EnterRunsInstalledBinary == [][C18_Step]_vars

----------------------------------------------------------------------------
(***************************************************************************)
(* SpecForwardingArgs: a constructed image backend whose forwarding        *)
(* arguments are computed with the state file handle on any namespace.     *)
(***************************************************************************)
MaxArgCalls == 2    \* calls of _get_x11_args in one behaviour

HandleNamespaces == {root_namespace, "X11", "other"}

InitForwardingArgs ==
    /\ installed = {"apptainer"}
    /\ osenv \in X11Envs
    /\ fs \in { Closure(X11Tree \cup S) : S \in SUBSET X11Seeds }
    /\ cfg \in X11StateFiles(fs)
    /\ envfiles = MainEnvFiles
    /\ container = "absent"
    /\ pc = "forwarding"
    /\ cmd = "" /\ envs = None /\ runtime = "apptainer"
    /\ LET ci == ApptainerInit(osenv, envfiles, "base", None) IN
         profile = ci.profile /\ dot_vars = ci.dot_vars /\ environ = ci.environ
    /\ namespace \in HandleNamespaces
    /\ x11_args = <<>> /\ binds = <<>>
    /\ trace = <<>>
    /\ last = [args |-> None, dot_vars |-> EmptyMap, environ |-> EmptyMap]

\* one call of ApptainerInterface._get_x11_args; the state file is only read
GetX11Args ==
    /\ pc = "forwarding"
    /\ Cardinality(At(trace, Called("_get_x11_args"))) < MaxArgCalls
    /\ LET r == get_x11_args(fs, cfg, osenv, namespace) IN
         /\ x11_args' = r.args
         /\ namespace' = r.ns
    /\ trace' = trace \o <<Called("_get_x11_args"), Returned("_get_x11_args")>>
    /\ UNCHANGED <<host, fs, cfg, container, pc, cmd, envs, runtime, profile, dot_vars,
                   environ, binds, last>>

NextForwardingArgs == GetX11Args

SpecForwardingArgs == InitForwardingArgs /\ [][NextForwardingArgs]_vars

\* C19: computing the image backend's forwarding arguments only reads the
\* StateFile: when it returns the handle's active namespace is the one that
\* was active before the call, the flag having been read under "X11"
\* whatever that namespace is, and no entry of any namespace has been
\* added, changed or removed, nor the file created.
C19_Step ==
    (pc = "forwarding" /\ trace' # trace) =>
        /\ namespace' = namespace
        /\ cfg' = cfg
        /\ fs' = fs
        /\ x11_args' # <<>> =>
             (<<"X11", FlagKey>> \in DOMAIN cfg /\ cfg[<<"X11", FlagKey>>] = <<"1">>)
        /\ (statefile_path \in fs /\ cfg = Flag(<<"1">>)
            /\ <<"DISPLAY">> \in DOMAIN osenv /\ X11Socket \in fs) => x11_args' # <<>>

C19_ForwardingArgsOnlyRead == [][C19_Step]_vars

\* the arguments were computed with the handle on the root namespace, the
\* flag enabled under "X11", and the handle is on the root namespace still
C19_Witness ==
    /\ pc = "forwarding"
    /\ At(trace, Returned("_get_x11_args")) # {}
    /\ namespace = root_namespace
    /\ statefile_path \in fs /\ cfg = Flag(<<"1">>)
    /\ x11_args # <<>>

----------------------------------------------------------------------------
(***************************************************************************)
(* SpecKeeps: cleanup on the image backend on hosts that hold the asset    *)
(* packs and files inside the project trees, next to what cleanup removes. *)
(***************************************************************************)
KeptTree ==
    { assets_dir \o <<"NVIDIA">>,
      isaaclab_root \o <<"source", "ext">>,
      isaaclab_root \o <<"docs", "index.rst">>,
      repo_root \o <<"libraries", "lib1">> }

KeepsSeeds ==
    { image_path("base"),
      vol_root \o <<"kit", "cache">>,
      vol_root \o <<"docs", "d1">>,
      isaaclab_root \o <<"logs", "run1">>,
      isaaclab_root \o <<"outputs", "o1">>,
      isaaclab_root \o <<"data_storage">> }

InitKeeps ==
    /\ installed \in { {"apptainer"}, {"singularity"} }
    /\ osenv = WithDisplay
    /\ fs \in { Closure(BaseTree \cup KeptTree \cup S) : S \in SUBSET KeepsSeeds }
    /\ cfg = EmptyMap
    /\ envfiles = MainEnvFiles
    /\ container = "absent"
    /\ InitSession

SpecKeeps == InitKeeps /\ [][NextCleanup]_vars

\* what cleanup is not to touch
C20_Kept ==
    { <<"repo", "docker_volumes", "assets">>,
      <<"repo", "isaaclab", "source">>, <<"repo", "isaaclab", "scripts">>,
      <<"repo", "isaaclab", "docs">>, <<"repo", "isaaclab", "tools">>,
      <<"repo", "libraries">> }

C20_Under(f, d) == { q \in f : Len(q) >= Len(d) /\ SubSeq(q, 1, Len(d)) = d }

\* the project directories of the step whose prompt was answered y or yes
C20_Agreed(u) ==
    { u[i][2] : i \in { j \in Of(u, "input") : u[j][3] \in C9_Yes } }

\* C20: cleanup on the image backend deletes nothing outside its targets.
\* Whatever is answered at the prompts, the asset-pack directory under the
\* volumes root and the project's source, scripts, docs, tools and
\* libraries trees are there afterwards with all they held, and a project
\* logs, outputs or data_storage directory whose prompt was not answered y
\* or yes keeps its contents unchanged; this through the whole invocation,
\* forwarding cleanup included.
C20_Step ==
    (runtime = "apptainer" /\ cmd = "cleanup" /\ pc \in {"dispatch", "after"}) =>
        /\ \A d \in C20_Kept : C20_Under(fs', d) = C20_Under(fs, d)
        /\ \A d \in { <<"repo", "isaaclab", x>> : x \in {"logs", "outputs", "data_storage"} } :
             d \notin C20_Agreed(Added(trace, trace'))
             => C20_Under(fs', d) = C20_Under(fs, d)
        /\ fs' \subseteq fs

C20_CleanupKeepsTheRest == [][C20_Step]_vars

\* cleanup has returned on a host with asset packs: the volume docs
\* directory went, the project's docs stayed, outputs was agreed to and
\* went, logs was declined and kept its run
C20_Witness ==
    /\ runtime = "apptainer" /\ cmd = "cleanup" /\ pc = "after"
    /\ At(trace, <<"rmtree", vol_root \o <<"docs">>>>) # {}
    /\ At(trace, <<"input", isaaclab_root \o <<"outputs">>, <<"y">>>>) # {}
    /\ At(trace, <<"input", isaaclab_root \o <<"logs">>, <<"n">>>>) # {}
    /\ isaaclab_root \o <<"outputs">> \notin fs
    /\ isaaclab_root \o <<"logs", "run1">> \in fs
    /\ isaaclab_root \o <<"docs", "index.rst">> \in fs
    /\ assets_dir \o <<"NVIDIA">> \in fs

=============================================================================
